---- MODULE Spec2Model ----
(***************************************************************************)
(* The morphological analyzer of core_nlp (src/core_nlp/src/engine.py and  *)
(* dataloader.py) as a state machine.                                      *)
(*                                                                         *)
(* Strings of the program are sequences of one-character strings, so that  *)
(* slicing, concatenation, startswith and lower() are computed.  A Python  *)
(* dict is the sequence of its [key, value] items in insertion order.  A   *)
(* Python set of flags is held as the tuple of its elements in the order   *)
(* the process iterates it (fixed when the set is built, any order).       *)
(* Scores are held doubled, so that the 0.5 granularity bonus is integral. *)
(***************************************************************************)
EXTENDS Integers, Sequences, FiniteSets, TLC

VARIABLES
  dicFile,       \* data/tr_TR.dic : [exists, lines]
  affFile,       \* data/tr_TR.aff : [exists, lines]
  pc,            \* "new" before MorphAnalyzer(), then "ready" or "failed"
  dictionary,    \* self.dictionary
  rules,         \* self.rules
  rules_by_add,  \* self.rules_by_add
  call           \* the method call that has just returned, with its locals

vars == <<dicFile, affFile, pc, dictionary, rules, rules_by_add, call>>

-----------------------------------------------------------------------------
(* Bounds of the model *)

MaxAffLines == 2
MaxDicLines == 2
MaxWords == 2
MaxStemLen == 1
MaxSuffixLen == 3
MaxParts == 2
MaxCands == 2

-----------------------------------------------------------------------------
(* Strings *)

Letters == {"a", "m"}

SeqsUpTo(S, n) == UNION {[1..k -> S] : k \in 0..n}

RECURSIVE Concat(_)
Concat(ss) == IF ss = <<>> THEN <<>> ELSE Head(ss) \o Concat(Tail(ss))

Slice(s, from, to) == [i \in 1..(to - from) |-> s[from + i]]

StartsWith(s, prefix) ==
  /\ Len(prefix) <= Len(s)
  /\ \A i \in 1..Len(prefix) : s[i] = prefix[i]

LowerChar(c) == IF c = "A" THEN "a" ELSE c

Lower(s) == [i \in 1..Len(s) |-> LowerChar(s[i])]

RECURSIVE SplitSpace(_)
SplitSpace(s) ==
  IF \A i \in 1..Len(s) : s[i] # " "
  THEN <<s>>
  ELSE LET i == CHOOSE k \in 1..Len(s) :
                  s[k] = " " /\ \A j \in 1..(k - 1) : s[j] # " "
       IN <<Slice(s, 0, i - 1)>> \o SplitSpace(Slice(s, i, Len(s)))

RECURSIVE JoinSpace(_)
JoinSpace(ws) ==
  IF Len(ws) = 1 THEN ws[1] ELSE ws[1] \o <<" ">> \o JoinSpace(Tail(ws))

(* re.match(pattern, s) for the patterns of the model: a letter matches    *)
(* itself, "." matches any character, and the match is anchored at the     *)
(* start of s only.                                                        *)
ReMatch(pattern, s) ==
  /\ Len(pattern) <= Len(s)
  /\ \A i \in 1..Len(pattern) : pattern[i] = "." \/ pattern[i] = s[i]

-----------------------------------------------------------------------------
(* Python dicts, in insertion order *)

HasKey(d, k) == \E i \in 1..Len(d) : d[i].key = k

Get(d, k) == d[CHOOSE i \in 1..Len(d) : d[i].key = k].value

Put(d, k, v) ==
  IF HasKey(d, k)
  THEN [i \in 1..Len(d) |-> IF d[i].key = k THEN [key |-> k, value |-> v] ELSE d[i]]
  ELSE Append(d, [key |-> k, value |-> v])

Keys(d) == {d[i].key : i \in 1..Len(d)}

-----------------------------------------------------------------------------
(* dataloader.py *)

ToSet(s) == {s[i] : i \in 1..Len(s)}

RECURSIVE DicLines(_, _)
DicLines(lines, d) ==
  IF lines = <<>> THEN d
  ELSE LET parts == Head(lines) IN
       IF parts = <<>>
       THEN DicLines(Tail(lines), d)
       ELSE DicLines(Tail(lines),
                     Put(d, parts[1],
                         [type |-> "root",
                          flags |-> IF Len(parts) > 1 THEN ToSet(parts[2]) ELSE {},
                          bool |-> TRUE]))

(* load_dic: a missing file raises OSError at open(), which is caught and  *)
(* gives {}; an existing file with no line raises StopIteration at next(f),*)
(* which is not caught.                                                    *)
LoadDicRaising(file) ==
  IF ~file.exists \/ file.lines = <<>>
  THEN [raised |-> TRUE, value |-> <<>>]
  ELSE [raised |-> FALSE, value |-> DicLines(Tail(file.lines), <<>>)]

load_dic(file) ==
  IF ~file.exists THEN [raised |-> FALSE, value |-> <<>>]
  ELSE IF file.lines = <<>> THEN [raised |-> TRUE, value |-> <<>>]
  ELSE [raised |-> FALSE, value |-> DicLines(Tail(file.lines), <<>>)]

ZeroIsEmpty(token) == IF token = <<"0">> THEN <<>> ELSE token

RECURSIVE AffLines(_, _)
AffLines(lines, r) ==
  IF lines = <<>> THEN r
  ELSE LET parts == Head(lines) IN
       IF parts = <<>> \/ parts[1] # "SFX" \/ Len(parts) < 5
       THEN AffLines(Tail(lines), r)
       ELSE LET flag == parts[2]
                rule == [strip |-> ZeroIsEmpty(parts[3]),
                         add |-> ZeroIsEmpty(parts[4]),
                         cond |-> parts[5]]
                old == IF HasKey(r, flag) THEN Get(r, flag) ELSE <<>>
            IN AffLines(Tail(lines), Put(r, flag, Append(old, rule)))

load_aff(file) == IF ~file.exists THEN <<>> ELSE AffLines(file.lines, <<>>)

-----------------------------------------------------------------------------
(* engine.py: construction *)

AllRules(r) == Concat([i \in 1..Len(r) |-> r[i].value])

RECURSIVE IndexRules(_, _)
IndexRules(rs, index) ==
  IF rs = <<>> THEN index
  ELSE LET rule == Head(rs)
           old == IF HasKey(index, rule.add) THEN Get(index, rule.add) ELSE <<>>
       IN IndexRules(Tail(rs), Put(index, rule.add, Append(old, rule)))

_build_reverse_rules(r) == IndexRules(AllRules(r), <<>>)

Perms(S) ==
  {p \in [1..Cardinality(S) -> S] : \A i, j \in 1..Cardinality(S) : p[i] = p[j] => i = j}

RECURSIVE IterationOrders(_)
IterationOrders(d) ==
  IF d = <<>> THEN {<<>>}
  ELSE {<<[key |-> Head(d).key,
           value |-> [Head(d).value EXCEPT !.flags = p]]>> \o rest :
          p \in Perms(Head(d).value.flags), rest \in IterationOrders(Tail(d))}

NoCall == [op |-> "none"]

Construct ==
  /\ pc = "new"
  /\ LET dic == load_dic(dicFile) IN
       IF dic.raised
       THEN /\ pc' = "failed"
            /\ UNCHANGED <<dictionary, rules, rules_by_add>>
       ELSE /\ pc' = "ready"
            /\ dictionary' \in IterationOrders(dic.value)
            /\ rules' = load_aff(affFile)
            /\ rules_by_add' = _build_reverse_rules(rules')
  /\ UNCHANGED <<dicFile, affFile, call>>

-----------------------------------------------------------------------------
(* engine.py: _recursive_split *)

CondHolds(cond, stem) == cond = <<".">> \/ ReMatch(cond, stem)

(* ValidPart without the condition check of lines 56-62 *)
ValidPartAnyStem(part, stem) == HasKey(rules_by_add, part)

ValidPart(part, stem) ==
  /\ HasKey(rules_by_add, part)
  /\ \E i \in 1..Len(Get(rules_by_add, part)) :
       CondHolds(Get(rules_by_add, part)[i].cond, stem)

RECURSIVE _recursive_split(_, _)

(* _recursive_split with rest = suffix[i + 1:] *)
RecursiveSplitSkipping(stem, suffix) ==
  IF suffix = <<>> THEN << <<>> >>
  ELSE Concat([i \in 1..Len(suffix) |->
                 LET part == Slice(suffix, 0, i)
                     rest == Slice(suffix, i + 1, Len(suffix))
                 IN IF ValidPart(part, stem)
                    THEN LET sub_results == _recursive_split(stem \o part, rest)
                         IN [k \in 1..Len(sub_results) |-> <<part>> \o sub_results[k]]
                    ELSE <<>>])

_recursive_split(stem, suffix) ==
  IF suffix = <<>> THEN << <<>> >>
  ELSE Concat([i \in 1..Len(suffix) |->
                 LET part == Slice(suffix, 0, i)
                     rest == Slice(suffix, i, Len(suffix))
                 IN IF ValidPart(part, stem)
                    THEN LET sub_results == _recursive_split(stem \o part, rest)
                         IN [k \in 1..Len(sub_results) |-> <<part>> \o sub_results[k]]
                    ELSE <<>>])

-----------------------------------------------------------------------------
(* engine.py: _select_best_match *)

KnownReward == 10
SingleLetterPenalty == 1
UnknownPenalty == 5

BufferLetters == {<<"y">>, <<"n">>, <<"s">>, <<"m">>, <<"k">>, <<"z">>, <<"l">>}

known_suffixes ==
  {AllRules(rules)[i].add : i \in {j \in 1..Len(AllRules(rules)) : AllRules(rules)[j].add # <<>>}}
    \cup BufferLetters

(* PartScore with score -= 10 for a known suffix *)
PartScoreSignSlip(part, known) ==
  IF part \in known THEN 0 - KnownReward
  ELSE IF Len(part) = 1 THEN 0 - SingleLetterPenalty
  ELSE 0 - UnknownPenalty

PartScore(part, known) ==
  IF part \in known THEN KnownReward
  ELSE IF Len(part) = 1 THEN 0 - SingleLetterPenalty
  ELSE 0 - UnknownPenalty

RECURSIVE SumParts(_, _)
SumParts(candidate, known) ==
  IF candidate = <<>> THEN 0
  ELSE PartScore(Head(candidate), known) + SumParts(Tail(candidate), known)

(* Twice the score of the code: score + len(candidate) * 0.5 *)
Score2(candidate, known) == 2 * SumParts(candidate, known) + Len(candidate)

(* list.sort(key=score, reverse=True): stable, equal scores keep their order *)
RECURSIVE SortDesc(_)

(* SortDesc without reverse=True *)
SortAsc(s) ==
  IF s = <<>> THEN <<>>
  ELSE LET rest == SortDesc(Tail(s))
           x == Head(s)
           n == Cardinality({i \in 1..Len(rest) : rest[i].score < x.score})
       IN SubSeq(rest, 1, n) \o <<x>> \o SubSeq(rest, n + 1, Len(rest))

SortDesc(s) ==
  IF s = <<>> THEN <<>>
  ELSE LET rest == SortDesc(Tail(s))
           x == Head(s)
           n == Cardinality({i \in 1..Len(rest) : rest[i].score > x.score})
       IN SubSeq(rest, 1, n) \o <<x>> \o SubSeq(rest, n + 1, Len(rest))

scored_candidates(list_of_possible_matches) ==
  LET known == known_suffixes
  IN SortDesc([i \in 1..Len(list_of_possible_matches) |->
                 [score |-> Score2(list_of_possible_matches[i], known),
                  cand |-> list_of_possible_matches[i]]])

_select_best_match(list_of_possible_matches) ==
  IF list_of_possible_matches = <<>> THEN <<>>
  ELSE LET scored == scored_candidates(list_of_possible_matches)
           best_score == scored[1].score
           ties == SelectSeq(scored, LAMBDA sc : sc.score = best_score)
       IN [i \in 1..Len(ties) |-> ties[i].cand]

-----------------------------------------------------------------------------
(* engine.py: analyze *)

modified_root(root, rule) ==
  IF rule.strip # <<>> /\ ReMatch(rule.strip, root)
  THEN Slice(root, 0, Len(root) - Len(rule.strip))
  ELSE root

(* expected_word with the suffix put before the root *)
ExpectedWordAddFirst(root, rule) == rule.add \o modified_root(root, rule)

expected_word(root, rule) == modified_root(root, rule) \o rule.add

(* The iterations of the loops of analyze in which line 195 holds, in loop *)
(* order, each with the locals of that iteration.                          *)
RuleMatches(word, root, flag) ==
  Concat([r \in 1..Len(Get(rules, flag)) |->
            LET rule == Get(rules, flag)[r] IN
            IF CondHolds(rule.cond, root) /\ expected_word(root, rule) = word
            THEN LET possible_splits == _recursive_split(modified_root(root, rule), rule.add)
                     best == _select_best_match(possible_splits)
                 IN <<[word |-> word, root |-> root, flag |-> flag, rule |-> rule,
                       possible_splits |-> possible_splits,
                       best_match |-> IF best = <<>> THEN << <<rule.add>> >> ELSE best]>>
            ELSE <<>>])

RootMatches(word, item) ==
  IF Len(item.key) >= Len(word) \/ ~StartsWith(word, item.key)
  THEN <<>>
  ELSE Concat([f \in 1..Len(item.value.flags) |->
                 LET flag == item.value.flags[f] IN
                 IF HasKey(rules, flag) THEN RuleMatches(word, item.key, flag) ELSE <<>>])

WordMatches(word) ==
  Concat([d \in 1..Len(dictionary) |-> RootMatches(word, dictionary[d])])

(* MatchRecords emitting only the splits the scorer selected *)
MatchRecordsBest(m) ==
  [i \in 1..Len(m.best_match) |->
     [kind |-> "dict", root |-> m.root, stem |-> m.rule.add,
      suffixes |-> m.best_match[i], flag_number |-> m.flag]]

MatchRecords(m) ==
  [i \in 1..Len(m.possible_splits) |->
     [kind |-> "dict", root |-> m.root, stem |-> m.rule.add,
      suffixes |-> m.possible_splits[i], flag_number |-> m.flag]]

NotFound(word) ==
  [kind |-> "str", text |-> <<"No analysis found for '">> \o word \o <<"'">>]

list_of_sentences(sentences) ==
  [i \in 1..Len(SplitSpace(sentences)) |-> Lower(SplitSpace(sentences)[i])]

analyze(sentences) ==
  LET words == list_of_sentences(sentences)
      matches == Concat([w \in 1..Len(words) |-> WordMatches(words[w])])
      analyses == Concat([m \in 1..Len(matches) |-> MatchRecords(matches[m])])
  IN [op |-> "analyze", sentences |-> sentences, matches |-> matches,
      analyses |-> IF analyses # <<>> THEN analyses
                   ELSE <<NotFound(words[Len(words)])>>]

-----------------------------------------------------------------------------
(* Inputs *)

Present(lines) == [exists |-> TRUE, lines |-> lines]
Missing == [exists |-> FALSE, lines |-> <<>>]

AffLinePool ==
  { <<"SFX", "F1", <<"0">>, <<"m">>, <<".">>>>,
    <<"SFX", "F1", <<"0">>, <<"m", "m">>, <<".">>>>,
    <<"SFX", "F1", <<"a">>, <<"m", "m">>, <<".">>>>,
    <<"SFX", "F2", <<"0">>, <<"m">>, <<"a">>>> }

Header == << <<"2">> >>

DicLinePool ==
  { << <<"a">>, <<"F1">> >>,
    << <<"a", "m">>, <<"F1", "F2">> >>,
    << <<"A">>, <<"F1">> >> }

WordPool == { <<"a", "m">>, <<"A", "m">>, <<"a", "m", "m">> }

AffFiles == {Missing} \cup {Present(ls) : ls \in SeqsUpTo(AffLinePool, MaxAffLines)}

DicFiles ==
  {Missing, Present(<<>>)}
    \cup {Present(<<Header>> \o ls) : ls \in SeqsUpTo(DicLinePool, MaxDicLines)}

Texts == {JoinSpace(ws) : ws \in SeqsUpTo(WordPool, MaxWords) \ {<<>>}}

-----------------------------------------------------------------------------
(* The analyzer and its caller *)

Init ==
  /\ dicFile \in DicFiles
  /\ affFile \in AffFiles
  /\ pc = "new"
  /\ dictionary = <<>>
  /\ rules = <<>>
  /\ rules_by_add = <<>>
  /\ call = NoCall

(* Analyze keeping the words it has seen as keys of the index *)
AnalyzeMemo ==
  /\ pc = "ready"
  /\ call = NoCall
  /\ \E sentences \in Texts :
       /\ call' = analyze(sentences)
       /\ rules_by_add' = Put(rules_by_add, list_of_sentences(sentences)[1], <<>>)
  /\ UNCHANGED <<dicFile, affFile, pc, dictionary, rules>>

Analyze ==
  /\ pc = "ready"
  /\ call = NoCall
  /\ \E sentences \in Texts : call' = analyze(sentences)
  /\ UNCHANGED <<dicFile, affFile, pc, dictionary, rules, rules_by_add>>

Return ==
  /\ call # NoCall
  /\ call' = NoCall
  /\ UNCHANGED <<dicFile, affFile, pc, dictionary, rules, rules_by_add>>

Next == Construct \/ Analyze \/ Return

Spec == Init /\ [][Next]_vars

-----------------------------------------------------------------------------
(* _recursive_split called on its own *)

SplitLinePool ==
  { <<"SFX", "F1", <<"0">>, <<"a">>, <<".">>>>,
    <<"SFX", "F1", <<"0">>, <<"m">>, <<"a">>>>,
    <<"SFX", "F1", <<"0">>, <<"m", "m">>, <<".">>>>,
    <<"SFX", "F2", <<"0">>, <<"a", "m">>, <<"m">>>>,
    <<"SFX", "F2", <<"0">>, <<"a">>, <<".", "m">>>>,
    <<"SFX", "F2", <<"0">>, <<"m">>, <<"m", "a">>>>,
    <<"SFX", "F2", <<"0">>, <<"0">>, <<".">>>>,
    <<"PFX", "F1", <<"0">>, <<"m">>, <<".">>>>,
    <<"SFX", "F1", <<"0">>, <<"m">>>> }

InitSplit ==
  /\ dicFile = Missing
  /\ affFile \in {Present(ls) : ls \in SeqsUpTo(SplitLinePool, MaxAffLines)}
  /\ pc = "new"
  /\ dictionary = <<>>
  /\ rules = <<>>
  /\ rules_by_add = <<>>
  /\ call = NoCall

Decompose ==
  /\ pc = "ready"
  /\ call = NoCall
  /\ \E stem \in SeqsUpTo(Letters, MaxStemLen), suffix \in SeqsUpTo(Letters, MaxSuffixLen) :
       call' = [op |-> "_recursive_split", stem |-> stem, suffix |-> suffix,
                results |-> _recursive_split(stem, suffix)]
  /\ UNCHANGED <<dicFile, affFile, pc, dictionary, rules, rules_by_add>>

NextSplit == Construct \/ Decompose \/ Return

SpecSplit == InitSplit /\ [][NextSplit]_vars

-----------------------------------------------------------------------------
(* _select_best_match called on its own *)

ScoreLinePool == { <<"SFX", "F1", <<"0">>, <<"a", "a">>, <<".">>>> }

PartPool == { <<"a">>, <<"m">>, <<"a", "a">> }

Candidates == SeqsUpTo(PartPool, MaxParts)

InitScore ==
  /\ dicFile = Missing
  /\ affFile \in {Present(ls) : ls \in SeqsUpTo(ScoreLinePool, MaxAffLines)}
  /\ pc = "new"
  /\ dictionary = <<>>
  /\ rules = <<>>
  /\ rules_by_add = <<>>
  /\ call = NoCall

SelectBest ==
  /\ pc = "ready"
  /\ call = NoCall
  /\ \E list_of_possible_matches \in SeqsUpTo(Candidates, MaxCands) :
       call' = [op |-> "_select_best_match",
                list_of_possible_matches |-> list_of_possible_matches,
                scored_candidates |-> scored_candidates(list_of_possible_matches),
                result |-> _select_best_match(list_of_possible_matches)]
  /\ UNCHANGED <<dicFile, affFile, pc, dictionary, rules, rules_by_add>>

NextScore == Construct \/ SelectBest \/ Return

SpecScore == InitScore /\ [][NextScore]_vars

-----------------------------------------------------------------------------
(* Properties *)

IsAnalyze == call.op = "analyze"

Words == list_of_sentences(call.sentences)

Records == SelectSeq(call.analyses, LAMBDA e : e.kind = "dict")

Strs == SelectSeq(call.analyses, LAMBDA e : e.kind = "str")

(* C1: every record that analyze emits is for an input word w with         *)
(* root + stem = w, also when the matching rule has a non-empty strip.     *)
C1_RootPlusStemIsWord ==
  IsAnalyze =>
    \A i \in 1..Len(Records) :
      \E k \in 1..Len(Words) : Records[i].root \o Records[i].stem = Words[k]

(* C2: in every record that analyze returns, the suffixes concatenated in  *)
(* order are the stem.                                                     *)
C2_SuffixesConcatToStem ==
  IsAnalyze =>
    \A i \in 1..Len(Records) : Concat(Records[i].suffixes) = Records[i].stem

C2_Witness ==
  /\ IsAnalyze
  /\ \E i \in 1..Len(Records) : Len(Records[i].suffixes) >= 2
  /\ \E i \in 1..Len(Records) : Records[i].suffixes = <<Records[i].stem>>

(* C3: in an input of non-empty words, every word for which no root, flag and rule matches gives the *)
(* string "No analysis found for '<word>'" in the result, also when other  *)
(* words of the input give records.                                        *)
C3_DiagnosticPerUnmatchedWord ==
  (IsAnalyze /\ \A k \in 1..Len(Words) : Words[k] # <<>>) =>
    \A k \in 1..Len(Words) :
      (\A j \in 1..Len(call.matches) : call.matches[j].word # Words[k])
        => \E i \in 1..Len(Strs) : Strs[i] = NotFound(Words[k])

(* The lexicon holds the single root R with the flags {F} and the rule set *)
(* the single rule F: strip "", add A (not empty), cond ".", and the call  *)
(* is analyze(R + A).                                                      *)
SingleRootSingleRule ==
  /\ IsAnalyze
  /\ Len(dictionary) = 1
  /\ Len(dictionary[1].key) > 0
  /\ Len(dictionary[1].value.flags) = 1
  /\ Len(rules) = 1
  /\ rules[1].key = dictionary[1].value.flags[1]
  /\ Len(rules[1].value) = 1
  /\ rules[1].value[1].strip = <<>>
  /\ rules[1].value[1].add # <<>>
  /\ rules[1].value[1].cond = <<".">>
  /\ call.sentences = dictionary[1].key \o rules[1].value[1].add

OneRecordOfTheRule ==
  call.analyses =
    <<[kind |-> "dict", root |-> dictionary[1].key, stem |-> rules[1].value[1].add,
       suffixes |-> <<rules[1].value[1].add>>, flag_number |-> rules[1].key]>>

(* C4 as claimed: for every such R and A, analyze(R + A) returns exactly   *)
(* the one record root R, stem A, suffixes [A], flag F.                    *)
C4_AsClaimed == SingleRootSingleRule => OneRecordOfTheRule

PlainText(s) == Lower(s) = s /\ \A i \in 1..Len(s) : s[i] # " "

(* C4: for R and A that lower() leaves unchanged and that hold no space,   *)
(* analyze(R + A) returns exactly the one record root R, stem A,           *)
(* suffixes [A], flag F, and no diagnostic string.                         *)
C4_OneRecordForPlainRootAndAdd ==
  (SingleRootSingleRule /\ PlainText(call.sentences)) => OneRecordOfTheRule

C4_Witness ==
  /\ SingleRootSingleRule
  /\ PlainText(call.sentences)
  /\ Len(rules[1].value[1].add) = 2

(* C5: when the dictionary file does not exist, construction completes     *)
(* with an empty lexicon and every analyze call returns only diagnostic    *)
(* strings.                                                                *)
C5_MissingDictionaryDegrades ==
  (~dicFile.exists /\ pc # "new") =>
    /\ pc = "ready"
    /\ dictionary = <<>>
    /\ IsAnalyze => (Records = <<>> /\ Len(Strs) >= 1)

C5_Witness ==
  /\ ~dicFile.exists
  /\ IsAnalyze
  /\ Len(rules_by_add) = 2
  /\ Len(Words) = 2

-----------------------------------------------------------------------------

IsSplit == call.op = "_recursive_split"

SortedCuts(S) ==
  CHOOSE b \in [1..Cardinality(S) -> S] : \A i, j \in 1..Cardinality(S) : i < j => b[i] < b[j]

PartitionAt(suffix, cuts) ==
  LET b == SortedCuts(cuts \cup {Len(suffix)})
  IN [i \in 1..Len(b) |-> Slice(suffix, IF i = 1 THEN 0 ELSE b[i - 1], b[i])]

Partitions(suffix) ==
  IF suffix = <<>> THEN {<<>>}
  ELSE {PartitionAt(suffix, cuts) : cuts \in SUBSET (1..(Len(suffix) - 1))}

PartAllowed(part, before) ==
  /\ part \in Keys(rules_by_add)
  /\ \E i \in 1..Len(Get(rules_by_add, part)) :
       LET cond == Get(rules_by_add, part)[i].cond
       IN cond = <<".">> \/ ReMatch(cond, before)

AllowedPartitions(stem, suffix) ==
  {p \in Partitions(suffix) :
     \A i \in 1..Len(p) : PartAllowed(p[i], stem \o Concat(SubSeq(p, 1, i - 1)))}

(* C6: decompose(stem, suffix) returns, each once, exactly the partitions  *)
(* of suffix into non-empty parts that are keys of the index with a rule   *)
(* whose condition is "." or matches at the start of the stem followed by  *)
(* the earlier parts; for the empty suffix, the one empty sequence.        *)
C6_DecomposeIsTheAllowedPartitions ==
  IsSplit =>
    /\ ToSet(call.results) = AllowedPartitions(call.stem, call.suffix)
    /\ Cardinality(ToSet(call.results)) = Len(call.results)
    /\ call.suffix = <<>> => call.results = << <<>> >>

C6_Witness ==
  /\ IsSplit
  /\ Len(call.suffix) = 3
  /\ Len(call.results) >= 2
  /\ \E k \in 1..Len(call.results) : \E i \in 1..Len(call.results[k]) :
       \A r \in 1..Len(Get(rules_by_add, call.results[k][i])) :
         Get(rules_by_add, call.results[k][i])[r].cond # <<".">>

-----------------------------------------------------------------------------

IsSelect == call.op = "_select_best_match"

Count(s, x) == Cardinality({i \in 1..Len(s) : s[i] = x})

MaxOf(S) == CHOOSE v \in S : \A w \in S : w <= v

(* C7: select_best returns exactly the input candidates whose score is the *)
(* maximum over the input, every tie kept, and [] for [].                  *)
C7_SelectBestIsTheTopScorers ==
  IsSelect =>
    LET list == call.list_of_possible_matches
        known == known_suffixes
        best == MaxOf({Score2(list[i], known) : i \in 1..Len(list)})
    IN IF list = <<>> THEN call.result = <<>>
       ELSE \A c \in ToSet(list) \cup ToSet(call.result) :
              Count(call.result, c) =
                IF Score2(c, known) = best THEN Count(list, c) ELSE 0

C7_Witness ==
  /\ IsSelect
  /\ Len(call.result) = 2
  /\ call.result[1] # call.result[2]
  /\ call.result = call.list_of_possible_matches

(* C8: a candidate with one more part of the known-suffix set appended     *)
(* scores strictly more than the candidate.                                *)
C8_KnownPartRaisesScore ==
  IsSelect =>
    LET known == known_suffixes IN
      \A i, j \in 1..Len(call.scored_candidates) :
        LET c == call.scored_candidates[i]
            d == call.scored_candidates[j]
        IN (/\ Len(d.cand) = Len(c.cand) + 1
            /\ SubSeq(d.cand, 1, Len(c.cand)) = c.cand
            /\ d.cand[Len(d.cand)] \in known)
             => d.score > c.score

C8_Witness ==
  /\ IsSelect
  /\ \E i, j \in 1..Len(call.scored_candidates) :
       LET c == call.scored_candidates[i]
           d == call.scored_candidates[j]
       IN /\ Len(c.cand) = 1
          /\ d.cand = c.cand \o << <<"a", "a">> >>
          /\ <<"a", "a">> \in known_suffixes
          /\ c.cand[1] \in known_suffixes

-----------------------------------------------------------------------------

(* C9: once the analyzer is constructed, no call changes the lexicon, the  *)
(* rule set or the reverse rule index.                                     *)
C9_TablesReadOnlyAfterConstruction ==
  [][pc = "ready" =>
       /\ dictionary' = dictionary
       /\ rules' = rules
       /\ rules_by_add' = rules_by_add]_vars

C9_Witness ==
  /\ IsAnalyze
  /\ Len(call.matches) >= 2
  /\ Len(rules_by_add) = 2

EndsWith(s, suffix) ==
  /\ Len(suffix) <= Len(s)
  /\ \A i \in 1..Len(suffix) : s[Len(s) - Len(suffix) + i] = suffix[i]

StrippedAtEnd(root, rule) ==
  IF rule.strip # <<>> /\ EndsWith(root, rule.strip)
  THEN Slice(root, 0, Len(root) - Len(rule.strip))
  ELSE root

(* C10: for every root and rule that analyze tries and whose condition     *)
(* holds, the rule matches the word exactly when the root, with strip      *)
(* removed from its end only if strip is not empty and the root ends with  *)
(* it, followed by add, is the word.                                       *)
C10_StripOnlyAtRootEnd ==
  IsAnalyze =>
    \A k \in 1..Len(Words), d \in 1..Len(dictionary) :
      LET word == Words[k]
          root == dictionary[d].key
          flags == dictionary[d].value.flags
      IN (Len(root) < Len(word) /\ StartsWith(word, root)) =>
           \A f \in 1..Len(flags) :
             HasKey(rules, flags[f]) =>
               \A r \in 1..Len(Get(rules, flags[f])) :
                 LET rule == Get(rules, flags[f])[r] IN
                   CondHolds(rule.cond, root) =>
                     ((\E j \in 1..Len(call.matches) :
                          /\ call.matches[j].word = word
                          /\ call.matches[j].root = root
                          /\ call.matches[j].flag = flags[f]
                          /\ call.matches[j].rule = rule)
                        <=> StrippedAtEnd(root, rule) \o rule.add = word)


-----------------------------------------------------------------------------

DecomposerRecords(m) ==
  LET candidates == _recursive_split(modified_root(m.root, m.rule), m.rule.add)
  IN [i \in 1..Len(candidates) |->
        [kind |-> "dict", root |-> m.root, stem |-> m.rule.add,
         suffixes |-> candidates[i], flag_number |-> m.flag]]

====
